---- MODULE Spec2Model ----
(***************************************************************************)
(* A model of the MCP-Hive proxy (mcpHiveProxy.ts and its helpers).        *)
(*                                                                         *)
(* Strings that the program takes apart or glues together (server names,  *)
(* tool names, namespaced names) are sequences of one-character strings,  *)
(* so that makeNamespacedName and parseNamespacedName are computed as the *)
(* code computes them.  Strings that are only compared are TLA+ strings.  *)
(* A JavaScript object is a record; an absent property is an absent field.*)
(***************************************************************************)
EXTENDS Integers, Sequences, FiniteSets, TLC

VARIABLES
    pc,          \* position of the entry callback: initialize(...) then run()
    args,        \* what Utils.proxyArgs() returned
    servers,     \* discovery.servers (the server names), gateway mode
    idx,         \* index of the server the gateway loop is registering
    tools,       \* McpServer's registered tools
    resources,   \* McpServer's registered resources
    prompts,     \* McpServer's registered prompts
    metaFetch,   \* history: outcome of ListToolsProxy.exec(MCPHIVE_SERVER)
    discovery,   \* history: outcome of the discoverServers call
    toolFetch,   \* history: per server, outcome of ListToolsProxy.exec
    resFetch,    \* history: per server, outcome of ListResourcesProxy.exec
    promptFetch, \* history: per server, outcome of ListPromptsProxy.exec
    lastCall,    \* the inbound call being served, with what it forwarded
    fn,          \* the pure-function harness (input, output) of SpecFn
    guard        \* the process has an 'uncaughtException' listener

gwVars == <<pc, args, servers, idx, tools, resources, prompts,
            metaFetch, discovery, toolFetch, resFetch, promptFetch, lastCall, guard>>
vars == <<pc, args, servers, idx, tools, resources, prompts,
          metaFetch, discovery, toolFetch, resFetch, promptFetch, lastCall, fn, guard>>

----------------------------------------------------------------------------
(* Bounds *)

\* longest tool listing a server returns
MaxTools == 2
\* longest string the namespacing functions are tried on
MaxLen == 3

----------------------------------------------------------------------------
(* Constants of the program *)

NAMESPACE_SEPARATOR == <<"_", "_", "_">>
MCPHIVE_SERVER == <<"m", "c", "p", "-", "h", "i", "v", "e">>
METHOD_TOOLS_CALL == "tools/call"
METHOD_RESOURCES_READ == "resources/read"
METHOD_PROMPTS_GET == "prompts/get"
MCPHIVE_TOOL_LIST_TOOLS == <<"l", "i", "s", "t", "T", "o", "o", "l", "s">>
MCPHIVE_TOOL_DISCOVER_SERVERS ==
    <<"d", "i", "s", "c", "o", "v", "e", "r", "S", "e", "r", "v", "e", "r", "s">>

----------------------------------------------------------------------------
(* Small helpers on sequences *)

\* the elements of a sequence
Range(s) == {s[i] : i \in 1..Len(s)}

\* sequences over S of length at most n
SeqsUpTo(S, n) == UNION {[1..k -> S] : k \in 0..n}

\* sequences without a repeated element
NoRepeat(s) == \A i, j \in 1..Len(s) : s[i] = s[j] => i = j

\* the property read without its "|| d" default
OrElseNoDefaultMutant(o, f, d) == IF f \in DOMAIN o THEN o[f] ELSE "undefined"

\* JavaScript's "x || d" on a property that may be absent; "" is falsy
OrElse(o, f, d) == IF f \in DOMAIN o /\ o[f] # "" THEN o[f] ELSE d

\* JavaScript's "o?.f" for a property that may be absent
Undefined == "undefined"
Prop(o, f) == IF f \in DOMAIN o THEN o[f] ELSE Undefined

----------------------------------------------------------------------------
(* Namespacing: parseNamespacedName / makeNamespacedName *)

\* String.prototype.indexOf(sep): the first 0-based index at which sep occurs
\* in s, or -1
\* String.prototype.lastIndexOf(sep) in its place: the last occurrence
LastIndexOfMutant(s, sep) ==
    LET hits == {i \in 0..(Len(s) - Len(sep)) :
                    SubSeq(s, i + 1, i + Len(sep)) = sep}
    IN IF hits = {} THEN -1
       ELSE CHOOSE i \in hits : \A j \in hits : i >= j

IndexOf(s, sep) ==
    LET hits == {i \in 0..(Len(s) - Len(sep)) :
                    SubSeq(s, i + 1, i + Len(sep)) = sep}
    IN IF hits = {} THEN -1
       ELSE CHOOSE i \in hits : \A j \in hits : i <= j

\* String.prototype.substring(from) and substring(0, to)
SubstringFrom(s, from) == SubSeq(s, from + 1, Len(s))
SubstringTo(s, to) == SubSeq(s, 1, to)

\* parseNamespacedName without its "idx === -1" test
ParseNeverThrowsMutant(namespacedName) == FALSE

ParseThrows(namespacedName) == IndexOf(namespacedName, NAMESPACE_SEPARATOR) = -1

parseNamespacedName(namespacedName) ==
    LET i == IndexOf(namespacedName, NAMESPACE_SEPARATOR)
    IN [serverName |-> SubstringTo(namespacedName, i),
        itemName |-> SubstringFrom(namespacedName, i + Len(NAMESPACE_SEPARATOR))]

\* the name built with a separator of one underscore
MakeShortSeparatorMutant(serverName, itemName) ==
    serverName \o <<"_">> \o itemName
makeNamespacedName(serverName, itemName) ==
    serverName \o NAMESPACE_SEPARATOR \o itemName

----------------------------------------------------------------------------
(* ZodHelpers: JavaScript values, type descriptors, validators               *)
(*                                                                           *)
(* A JavaScript value is a record tagged t; a type descriptor is a record    *)
(* holding the properties the JSON text gave it; a validator (a Zod schema)  *)
(* is a record tagged k.  Accepts is Zod's safeParse(...).success.           *)

JsUndefined == [t |-> "undefined"]
JsNull == [t |-> "null"]
JsString(v) == [t |-> "string", v |-> v]
JsNumber(n) == [t |-> "number", n |-> n]
JsBoolean(b) == [t |-> "boolean", b |-> b]
JsArray(items) == [t |-> "array", items |-> items]
JsObject(fields) == [t |-> "object", fields |-> fields]

\* what JSON.parse gives for the texts "null" and "1": not a descriptor object
NullDescriptor == [json |-> "null"]
NumberDescriptor == [json |-> "number"]

\* o.f !== undefined
Has(o, f) == f \in DOMAIN o

\* new RegExp(pattern) throws a SyntaxError on these
InvalidPatterns == {"(", "["}
\* RegExp.prototype.test for the patterns the model uses
RegexTest(pattern, v) ==
    CASE pattern = "^x" -> v \in {"x", "xy"}
      [] pattern = "y$" -> v \in {"y", "xy"}
      [] OTHER -> TRUE

\* the formats the string branch gives a dedicated check
RecognizedFormats ==
    {"email", "url", "uri", "uuid", "date-time", "datetime", "date", "time",
     "ipv4", "ipv6", "ip"}
\* the check Zod runs for a recognized format, on the sample strings
FormatTest(format, v) ==
    CASE format = "email" -> v = "a@b.co"
      [] format \in {"url", "uri"} -> v = "http://h"
      [] format \in {"ipv4", "ip"} -> v = "1.2.3.4"
      [] OTHER -> FALSE

Throw == [k |-> "throw"]
Threw(v) == v.k = "throw"
AnyThrew(vs) == \E i \in 1..Len(vs) : Threw(vs[i])

\* schema.describe(text); text may be undefined
Describe(v, text) == [k |-> "described", inner |-> v, description |-> text]
\* schema.nullable() / schema.optional()
Nullable(v) == [k |-> "nullable", inner |-> v]
Optional(v) == [k |-> "optional", inner |-> v]
\* "if (o.nullable) schema = schema.nullable()"
NullableIf(o, v) == IF Has(o, "nullable") /\ o.nullable THEN Nullable(v) ELSE v
\* "o.description || ''"
DescOrEmpty(o) == OrElse(o, "description", "")

ZUnknown == [k |-> "unknown"]

\* the string branch's chain of checks, in the order the code adds them
StringChecks(o) ==
    [min |-> IF Has(o, "minLength") THEN o.minLength ELSE -1,
     max |-> IF Has(o, "maxLength") THEN o.maxLength ELSE -1,
     pattern |-> IF Has(o, "pattern") /\ o.pattern # "" THEN o.pattern ELSE "",
     format |-> IF Has(o, "format") /\ o.format \in RecognizedFormats
                THEN o.format ELSE ""]

\* the number branch's chain of checks
NumberChecks(o) ==
    [int |-> o.type = "integer",
     bounds |-> {<<"gte", o.minimum>> : x \in IF Has(o, "minimum") THEN {1} ELSE {}}
          \cup {<<"gt", o.exclusiveMinimum>> :
                    x \in IF Has(o, "exclusiveMinimum") THEN {1} ELSE {}}
          \cup {<<"lte", o.maximum>> : x \in IF Has(o, "maximum") THEN {1} ELSE {}}
          \cup {<<"lt", o.exclusiveMaximum>> :
                    x \in IF Has(o, "exclusiveMaximum") THEN {1} ELSE {}}]

\* z.intersection folded left to right over schemas[1..n]
RECURSIVE FoldIntersection(_, _)
FoldIntersection(schemas, n) ==
    IF n = 1 THEN schemas[1]
    ELSE [k |-> "intersection", left |-> FoldIntersection(schemas, n - 1),
          right |-> schemas[n]]

\* a list counts only from two members on
NonEmptyListMutant(o, f) == Has(o, f) /\ Len(o[f]) > 1
NonEmptyList(o, f) == Has(o, f) /\ Len(o[f]) > 0

RECURSIVE scanObject(_)
scanObject(o) ==
    IF Has(o, "json") THEN
        \* reading o.const of null throws a TypeError; a number has no properties
        IF o.json = "null" THEN Throw ELSE ZUnknown
    ELSE IF Has(o, "const") THEN
        Describe([k |-> "literal", value |-> o.const], DescOrEmpty(o))
    ELSE IF NonEmptyList(o, "anyOf") THEN
        LET schemas == [i \in 1..Len(o.anyOf) |-> scanObject(o.anyOf[i])]
        IN IF AnyThrew(schemas) THEN Throw
           ELSE IF Len(schemas) = 1 THEN schemas[1]
           ELSE Describe([k |-> "union", options |-> schemas], DescOrEmpty(o))
    ELSE IF NonEmptyList(o, "oneOf") THEN
        LET schemas == [i \in 1..Len(o.oneOf) |-> scanObject(o.oneOf[i])]
        IN IF AnyThrew(schemas) THEN Throw
           ELSE IF Len(schemas) = 1 THEN schemas[1]
           ELSE Describe([k |-> "union", options |-> schemas], DescOrEmpty(o))
    ELSE IF NonEmptyList(o, "allOf") THEN
        LET schemas == [i \in 1..Len(o.allOf) |-> scanObject(o.allOf[i])]
        IN IF AnyThrew(schemas) THEN Throw
           ELSE Describe(FoldIntersection(schemas, Len(schemas)), DescOrEmpty(o))
    ELSE IF Prop(o, "type") = "null" THEN
        Describe([k |-> "null"], DescOrEmpty(o))
    ELSE IF Prop(o, "type") = "object" THEN
        IF /\ Has(o, "additionalProperties")
           /\ ~Has(o.additionalProperties, "bool")
           /\ (~Has(o, "properties") \/ DOMAIN o.properties = {})
        THEN LET valueSchema == scanObject(o.additionalProperties)
             IN IF Threw(valueSchema) THEN Throw
                ELSE NullableIf(o, [k |-> "record", value |-> valueSchema])
        ELSE LET props == IF Has(o, "properties") THEN o.properties ELSE <<>>
                 shape == [p \in DOMAIN props |-> scanObject(props[p])]
             IN IF \E p \in DOMAIN shape : Threw(shape[p]) THEN Throw
                ELSE NullableIf(o, [k |-> "object", shape |-> shape])
    ELSE IF Prop(o, "type") = "array" THEN
        IF NonEmptyList(o, "prefixItems") THEN
            LET tupleSchemas ==
                    [i \in 1..Len(o.prefixItems) |-> scanObject(o.prefixItems[i])]
            IN IF AnyThrew(tupleSchemas) THEN Throw
               ELSE Describe(NullableIf(o, [k |-> "tuple", items |-> tupleSchemas]),
                             DescOrEmpty(o))
        ELSE
            LET itemSchema == IF Has(o, "items") THEN scanObject(o.items)
                              ELSE ZUnknown
            IN IF Threw(itemSchema) THEN Throw
               ELSE Describe(
                        NullableIf(o,
                            [k |-> "array", item |-> itemSchema,
                             min |-> IF Has(o, "minItems") THEN o.minItems ELSE -1,
                             max |-> IF Has(o, "maxItems") THEN o.maxItems ELSE -1]),
                        DescOrEmpty(o))
    ELSE IF Prop(o, "type") = "string" THEN
        IF Has(o, "enum") THEN
            Describe(NullableIf(o, [k |-> "enum", values |-> Range(o.enum)]),
                     Prop(o, "description"))
        ELSE IF Has(o, "pattern") /\ o.pattern \in InvalidPatterns THEN Throw
        ELSE Describe(NullableIf(o, [k |-> "string", checks |-> StringChecks(o)]),
                      Prop(o, "description"))
    ELSE IF Prop(o, "type") \in {"number", "integer"} THEN
        Describe(NullableIf(o, [k |-> "number", checks |-> NumberChecks(o)]),
                 Prop(o, "description"))
    ELSE IF Prop(o, "type") = "boolean" THEN
        Describe(NullableIf(o, [k |-> "boolean"]), Prop(o, "description"))
    ELSE ZUnknown

\* one of the number branch's checks: gte, gt, lte, lt
BoundHolds(b, n) ==
    CASE b[1] = "gte" -> n >= b[2]
      [] b[1] = "gt" -> n > b[2]
      [] b[1] = "lte" -> n <= b[2]
      [] b[1] = "lt" -> n < b[2]

\* Zod's safeParse(x).success for validator v
RECURSIVE Accepts(_, _)
Accepts(v, x) ==
    CASE v.k = "described" -> Accepts(v.inner, x)
      [] v.k = "nullable" -> x.t = "null" \/ Accepts(v.inner, x)
      [] v.k = "optional" -> x.t = "undefined" \/ Accepts(v.inner, x)
      [] v.k = "unknown" -> TRUE
      [] v.k = "literal" -> x = v.value
      [] v.k = "union" -> \E i \in 1..Len(v.options) : Accepts(v.options[i], x)
      [] v.k = "intersection" -> Accepts(v.left, x) /\ Accepts(v.right, x)
      [] v.k = "null" -> x.t = "null"
      [] v.k = "record" ->
            /\ x.t = "object"
            /\ \A f \in DOMAIN x.fields : Accepts(v.value, x.fields[f])
      [] v.k = "object" ->
            /\ x.t = "object"
            /\ \A p \in DOMAIN v.shape :
                  Accepts(v.shape[p],
                          IF p \in DOMAIN x.fields THEN x.fields[p] ELSE JsUndefined)
      [] v.k = "tuple" ->
            /\ x.t = "array"
            /\ Len(x.items) = Len(v.items)
            /\ \A i \in 1..Len(v.items) : Accepts(v.items[i], x.items[i])
      [] v.k = "array" ->
            /\ x.t = "array"
            /\ \A i \in 1..Len(x.items) : Accepts(v.item, x.items[i])
            /\ (v.min # -1 => Len(x.items) >= v.min)
            /\ (v.max # -1 => Len(x.items) <= v.max)
      [] v.k = "enum" -> x.t = "string" /\ x.v \in v.values
      [] v.k = "string" ->
            /\ x.t = "string"
            /\ (v.checks.min # -1 => Len(x.v) >= v.checks.min)
            /\ (v.checks.max # -1 => Len(x.v) <= v.checks.max)
            /\ (v.checks.pattern # "" => RegexTest(v.checks.pattern, x.v))
            /\ (v.checks.format # "" => FormatTest(v.checks.format, x.v))
      [] v.k = "number" ->
            /\ x.t = "number"
            /\ \A b \in v.checks.bounds : BoundHolds(b, x.n)
      [] v.k = "boolean" -> x.t = "boolean"

\* the property names every JavaScript array has besides its index keys
\* (own "length" and what Array.prototype and Object.prototype give it)
ArrayPropertyKeys ==
    {"length", "constructor", "toString", "at", "map", "filter", "find",
     "keys", "values", "entries", "push", "pop"}

\* JavaScript's "k in arr" for an array arr: k is an index key of arr or one
\* of the property names every array has; the elements are never consulted
KeyInArray(k, arr) ==
    k \in {ToString(i) : i \in 0..(Len(arr) - 1)} \cup ArrayPropertyKeys

\* the same test by value, required_inputs.includes(k)
ValueInArrayMutant(k, arr) == k \in Range(arr)

\* "!(k in required_inputs)" decides zodType.optional()
IsRequiredInput(k, required_inputs) == KeyInArray(k, required_inputs)

\* ZodHelpers.inferZodRawShapeFromSpec: Throw when scanObject throws
inferZodRawShapeFromSpec(spec, required_inputs) ==
    LET scanned == [k \in DOMAIN spec |-> scanObject(spec[k])]
    IN IF \E k \in DOMAIN spec : Threw(scanned[k]) THEN Throw
       ELSE [k |-> "shape",
             shape |-> [p \in DOMAIN spec |->
                          IF IsRequiredInput(p, required_inputs) THEN scanned[p]
                          ELSE Optional(scanned[p])]]

\* the SDK validates a tool's input against z.object(inputSchema)
AcceptsInput(rawShape, input) ==
    Accepts([k |-> "object", shape |-> rawShape.shape], input)

----------------------------------------------------------------------------
(* Objects with optional properties *)

\* { ...f, ...g }
Merge(f, g) ==
    [k \in DOMAIN f \cup DOMAIN g |-> IF k \in DOMAIN g THEN g[k] ELSE f[k]]
\* the properties among fs that o has (an undefined property is absent)
Pick(o, fs) == [k \in (fs \cap DOMAIN o) |-> o[k]]
\* the single property t of the result, taken from o.f when o has it
Rename(o, f, t) == IF f \in DOMAIN o THEN [k \in {t} |-> o[f]] ELSE <<>>
\* JavaScript truthiness of a string property that may be absent
Truthy(o, f) == f \in DOMAIN o /\ o[f] # ""

----------------------------------------------------------------------------
(* The hub's answers: sendMCPHiveRequest returns the parsed body or null *)

Null == [tag |-> "null"]
IsNull(result) == result.tag = "null"

\* isTool
isTool(obj) ==
    /\ Has(obj, "name")
    /\ Has(obj, "description")
    /\ Has(obj, "input_schema")
    /\ Has(obj, "required_inputs")

\* isResource
isResource(obj) == Has(obj, "uri") /\ Has(obj, "name")

\* isPrompt
isPrompt(obj) == Has(obj, "name")

\* createDescTypeGuard(arrayField, itemGuard), for the three item guards
createDescTypeGuard(arrayField, obj) ==
    /\ Has(obj, "id")
    /\ Has(obj, "server")
    /\ Has(obj, arrayField)
    /\ \A i \in 1..Len(obj[arrayField]) :
          CASE arrayField = "tools" -> isTool(obj[arrayField][i])
            [] arrayField = "resources" -> isResource(obj[arrayField][i])
            [] arrayField = "prompts" -> isPrompt(obj[arrayField][i])

isMCPHiveServerDesc(obj) == createDescTypeGuard("tools", obj)
isMCPHivePromptsDesc(obj) == createDescTypeGuard("prompts", obj)
isMCPHiveResourcesDesc(obj) == createDescTypeGuard("resources", obj)

\* isMCPHiveDiscoveryDesc: 'servers' in obj, an array, and a numeric totalCount
isMCPHiveDiscoveryDesc(obj) ==
    /\ Has(obj, "servers")
    /\ obj.serversIsArray
    /\ Has(obj, "totalCount")

\* ListToolsProxy.exec throws 'Invalid response format from MCP-HIVE'
ListToolsThrows(result) ==
    ~(~IsNull(result) /\ Has(result, "structuredContent")
        /\ isMCPHiveServerDesc(result.structuredContent))
\* ListResourcesProxy.exec throws
ListResourcesThrows(result) ==
    ~(~IsNull(result) /\ Has(result, "structuredContent")
        /\ isMCPHiveResourcesDesc(result.structuredContent))
\* ListPromptsProxy.exec throws
ListPromptsThrows(result) ==
    ~(~IsNull(result) /\ Has(result, "structuredContent")
        /\ isMCPHivePromptsDesc(result.structuredContent))
\* the discovery result is unusable: initializeGatewayMode logs and returns
DiscoveryFails(result) ==
    ~(~IsNull(result) /\ Has(result, "structuredContent")
        /\ isMCPHiveDiscoveryDesc(result.structuredContent))

----------------------------------------------------------------------------
(* convertToSDKContent *)

\* JSON.stringify of a content entry with string properties
ContentKeys == <<"type", "text", "data", "mimeType", "uri", "name", "description">>
RECURSIVE StringifyFrom(_, _, _)
StringifyFrom(entry, i, first) ==
    IF i > Len(ContentKeys) THEN ""
    ELSE IF ContentKeys[i] \in DOMAIN entry
         THEN (IF first THEN "" ELSE ",")
              \o "\"" \o ContentKeys[i] \o "\":\"" \o entry[ContentKeys[i]] \o "\""
              \o StringifyFrom(entry, i + 1, FALSE)
         ELSE StringifyFrom(entry, i + 1, first)
JSONStringify(entry) == "{" \o StringifyFrom(entry, 1, TRUE) \o "}"

convertToSDKContent(entry) ==
    CASE entry.type = "text" ->
            [type |-> "text", text |-> OrElse(entry, "text", "")]
      [] entry.type = "image" ->
            [type |-> "image", data |-> OrElse(entry, "data", ""),
             mimeType |-> OrElse(entry, "mimeType", "application/octet-stream")]
      [] entry.type = "audio" ->
            [type |-> "audio", data |-> OrElse(entry, "data", ""),
             mimeType |-> OrElse(entry, "mimeType", "application/octet-stream")]
      [] entry.type = "resource" ->
            IF Has(entry, "resource") /\ Truthy(entry.resource, "blob")
            THEN [type |-> "resource",
                  resource |-> Merge([uri |-> entry.resource.uri,
                                      blob |-> entry.resource.blob],
                                     Pick(entry.resource, {"mimeType"}))]
            ELSE LET inner == IF Has(entry, "resource") THEN entry.resource ELSE <<>>
                 IN [type |-> "resource",
                     resource |-> Merge([uri |-> OrElse(inner, "uri", ""),
                                         text |-> OrElse(inner, "text", "")],
                                        Pick(inner, {"mimeType"}))]
      [] entry.type = "resource_link" ->
            Merge([type |-> "resource_link", uri |-> OrElse(entry, "uri", ""),
                   name |-> OrElse(entry, "name", "")],
                  Pick(entry, {"description", "mimeType"}))
      [] entry.type = "blob" ->
            [type |-> "text", text |-> OrElse(entry, "text", "")]
      [] OTHER ->
            [type |-> "text",
             text |-> IF Truthy(entry, "text") THEN entry.text
                      ELSE JSONStringify(entry)]

\* (result?.content || []).map(f)
ContentOf(result) ==
    IF ~IsNull(result) /\ Has(result, "content") THEN result.content ELSE <<>>

----------------------------------------------------------------------------
(* The inputs the model draws: command lines and the hub's answers *)

\* JSON texts: JSON.parse gives the value back, or throws on a malformed text
JsonText(value) == [text |-> "json", value |-> value]
MalformedText == [text |-> "malformed"]
JSONParseThrows(text) == text.text = "malformed"
JSONParse(text) == text.value

GoodSchema == [a |-> JsonText([type |-> "string"])]
BadPatternSchema == [a |-> JsonText([type |-> "string", pattern |-> "("])]
MalformedSchema == [a |-> MalformedText]

Tool(name, schema) ==
    [name |-> name, description |-> "d", input_schema |-> schema,
     required_inputs |-> <<"a">>]

\* the servers the hub may list, by name, in the order it lists them
AllServers == << <<"a">>, <<"b">>, <<"c", "_">> >>
ServerNames == Range(AllServers)
\* the local tool names a server may list, in the order it lists them
ToolNames == << <<"p">>, <<"q">>, <<"r">> >>
\* the hub's own tools
MetaToolNames == <<MCPHIVE_TOOL_DISCOVER_SERVERS, MCPHIVE_TOOL_LIST_TOOLS>>

\* a listing of the first n names; the descriptor of tool number bad (if any)
\* does not unpack or compile
ListingOf(names, n, bad) ==
    [i \in 1..n |->
        Tool(names[i],
             IF i # bad THEN GoodSchema
             ELSE IF i = 1 THEN BadPatternSchema ELSE MalformedSchema)]
ToolListings(names, max) ==
    UNION {{ListingOf(names, n, bad) : bad \in 0..n} : n \in 0..max}

ServerDesc(server, listing) ==
    [id |-> "id", server |-> server, tools |-> listing]
Resource1 == [uri |-> <<"u">>, name |-> <<"n">>, mimeType |-> "text/plain"]
ResourcesDesc(server) ==
    [id |-> "id", server |-> server, resources |-> <<Resource1>>]
Prompt1 == [name |-> <<"m">>, description |-> "d",
            arguments |-> <<[name |-> "x", required |-> TRUE]>>]
PromptsDesc(server) ==
    [id |-> "id", server |-> server, prompts |-> <<Prompt1>>]

Structured(sc) == [tag |-> "result", content |-> <<>>, structuredContent |-> sc]

\* answers that the list proxies refuse: null, no structured content, a
\* descriptor of another kind, an item that is not a tool
BadListAnswers ==
    {Null,
     [tag |-> "result", content |-> <<>>],
     Structured([id |-> "id", server |-> <<"a">>]),
     Structured(ServerDesc(<<"a">>, <<[name |-> <<"p">>]>>))}

ToolListAnswers(server) ==
    BadListAnswers
      \cup {Structured(ServerDesc(server, l)) : l \in ToolListings(ToolNames, MaxTools)}
MetaListAnswers ==
    {Null}
      \cup {Structured(ServerDesc(MCPHIVE_SERVER, ListingOf(MetaToolNames, 2, bad))) :
               bad \in {0, 2}}
ResourceListAnswers(server) ==
    {Null, Structured(ServerDesc(server, <<>>)), Structured(ResourcesDesc(server))}
PromptListAnswers(server) ==
    {Null, Structured(ServerDesc(server, <<>>)), Structured(PromptsDesc(server))}

DiscoveredServer(name) == [id |-> <<"#">> \o name, name |-> name]
DiscoveryDesc(n) ==
    [servers |-> [i \in 1..n |-> DiscoveredServer(AllServers[i])],
     serversIsArray |-> TRUE, totalCount |-> n]
DiscoveryAnswers ==
    {Null,
     [tag |-> "result", content |-> <<>>],
     Structured([totalCount |-> 0]),
     Structured([servers |-> <<>>, serversIsArray |-> FALSE, totalCount |-> 0]),
     Structured([servers |-> <<>>, serversIsArray |-> TRUE])}
      \cup {Structured(DiscoveryDesc(n)) : n \in 0..Len(AllServers)}

\* --server and --gateway as parseArgs gives them; <<>> is "no --server"
CommandLines == [server : {<<>>, <<"a">>}, gateway : BOOLEAN]

\* Utils.proxyArgs: gateway mode if --gateway is set or --server is not given
proxyArgs(values) ==
    [server |-> values.server,
     gateway |-> values.gateway \/ values.server = <<>>]

----------------------------------------------------------------------------
(* Registration with the SDK's McpServer *)

\* McpServer.registerTool / registerPrompt refuse a name, and registerResource
\* a uri, that is already registered (they throw)
Registered(table, key, value) == \E e \in table : e[key] = value

\* unpacking input_schema (JSON.parse of every value) or compiling it throws
ToolArgsThrow(toolDesc) ==
    \/ \E k \in DOMAIN toolDesc.input_schema :
          JSONParseThrows(toolDesc.input_schema[k])
    \/ Threw(inferZodRawShapeFromSpec(
                [k \in DOMAIN toolDesc.input_schema |->
                    JSONParse(toolDesc.input_schema[k])],
                toolDesc.required_inputs))

\* the inputSchema a tool is registered with
ToolArgs(toolDesc) ==
    inferZodRawShapeFromSpec(
        [k \in DOMAIN toolDesc.input_schema |-> JSONParse(toolDesc.input_schema[k])],
        toolDesc.required_inputs)

\* every mode namespacing the name
ExposedNameAlwaysMutant(server, namespaced, localName) ==
    makeNamespacedName(server, localName)

\* the name a capability of a server is exposed under
ExposedName(server, namespaced, localName) ==
    IF namespaced THEN makeNamespacedName(server, localName) ELSE localName

\* the "for (const toolDesc of ...tools)" loops: tools i.. of the listing are
\* registered in order until one throws; the handler keeps (server, toolName)
RECURSIVE RegisterToolList(_, _, _, _, _)
RegisterToolList(table, server, namespaced, listing, i) ==
    IF i > Len(listing) THEN [table |-> table, threw |-> FALSE]
    ELSE LET toolDesc == listing[i]
             name == ExposedName(server, namespaced, toolDesc.name)
         IN IF ToolArgsThrow(toolDesc) \/ Registered(table, "name", name)
            THEN [table |-> table, threw |-> TRUE]
            ELSE RegisterToolList(
                    table \cup {[name |-> name, server |-> server,
                                 toolName |-> toolDesc.name,
                                 inputSchema |-> ToolArgs(toolDesc)]},
                    server, namespaced, listing, i + 1)

\* the resource loops; the handler keeps (server, resource.uri) and answers
\* with the registered uri and mimeType
RECURSIVE RegisterResourceList(_, _, _, _, _)
RegisterResourceList(table, server, namespaced, listing, i) ==
    IF i > Len(listing) THEN table
    ELSE LET resource == listing[i]
             uri == ExposedName(server, namespaced, resource.uri)
         IN IF Registered(table, "uri", uri) THEN table
            ELSE RegisterResourceList(
                    table \cup {Merge([name |-> ExposedName(server, namespaced,
                                                            resource.name),
                                       uri |-> uri, server |-> server,
                                       resourceUri |-> resource.uri],
                                      Pick(resource, {"mimeType"}))},
                    server, namespaced, listing, i + 1)

\* argsSchema: z.string() for a required argument, z.string().optional() else
PromptArgsSchema(prompt) ==
    IF ~Has(prompt, "arguments") THEN <<>>
    ELSE LET named == {prompt.arguments[i].name : i \in 1..Len(prompt.arguments)}
             last(n) == CHOOSE i \in 1..Len(prompt.arguments) :
                          /\ prompt.arguments[i].name = n
                          /\ \A j \in 1..Len(prompt.arguments) :
                               prompt.arguments[j].name = n => j <= i
         IN [n \in named |->
                LET arg == prompt.arguments[last(n)]
                    str == [k |-> "string", checks |-> StringChecks(<<>>)]
                IN IF Has(arg, "required") /\ arg.required THEN str
                   ELSE Optional(str)]

\* the prompt loops; the handler keeps (server, prompt.name)
RECURSIVE RegisterPromptList(_, _, _, _, _)
RegisterPromptList(table, server, namespaced, listing, i) ==
    IF i > Len(listing) THEN table
    ELSE LET prompt == listing[i]
             name == ExposedName(server, namespaced, prompt.name)
         IN IF Registered(table, "name", name) THEN table
            ELSE RegisterPromptList(
                    table \cup {[name |-> name, server |-> server,
                                 promptName |-> prompt.name,
                                 argsSchema |-> PromptArgsSchema(prompt)]},
                    server, namespaced, listing, i + 1)

----------------------------------------------------------------------------
(* Handlers registered with the SDK *)

\* a handler that forwards the exposed name instead of the captured local one
ForwardExposedNameMutant(mcpServer, method, name) ==
    [mcpServer |-> mcpServer, method |-> method,
     name |-> makeNamespacedName(mcpServer, name)]

ForwardListMutant(mcpServer, method, name) ==
    [mcpServer |-> mcpServer, method |-> "tools/list", name |-> name]

\* what the forwarding call of a handler carried
Forward(mcpServer, method, name) ==
    [mcpServer |-> mcpServer, method |-> method, name |-> name]

\* the tool handlers (discovery, namespaced and single-server alike)
ToolHandlerResult(result) ==
    Merge([content |-> [i \in 1..Len(ContentOf(result)) |->
                           convertToSDKContent(ContentOf(result)[i])]],
          IF IsNull(result) THEN <<>>
          ELSE Pick(result, {"isError", "structuredContent"}))

\* read handlers that pass on the uri and mimeType of the response entry
ResourceHandlerEntryUriMutant(entry, result) ==
    [contents |->
        [i \in 1..Len(ContentOf(result)) |->
            LET c == ContentOf(result)[i]
                uri == IF Has(c, "uri") THEN c.uri ELSE entry.uri
            IN Merge(IF c.type = "blob"
                     THEN [uri |-> uri, blob |-> OrElse(c, "text", "")]
                     ELSE [uri |-> uri, text |-> OrElse(c, "text", "")],
                     Merge(Pick(entry, {"mimeType"}), Pick(c, {"mimeType"})))]]

\* a read handler that gives every entry as {uri, text}
ResourceHandlerTextOnlyMutant(entry, result) ==
    [contents |->
        [i \in 1..Len(ContentOf(result)) |->
            Merge([uri |-> entry.uri,
                   text |-> OrElse(ContentOf(result)[i], "text", "")],
                  Pick(entry, {"mimeType"}))]]

\* the resource read handlers: a blob entry gives {uri, blob}, any other
\* entry {uri, text}, with the registered uri and mimeType
ResourceHandlerResult(entry, result) ==
    [contents |->
        [i \in 1..Len(ContentOf(result)) |->
            LET c == ContentOf(result)[i]
            IN Merge(IF c.type = "blob"
                     THEN [uri |-> entry.uri, blob |-> OrElse(c, "text", "")]
                     ELSE [uri |-> entry.uri, text |-> OrElse(c, "text", "")],
                     Pick(entry, {"mimeType"}))]]

\* prompt get handlers that read result.structuredContent without "?."
PromptHandlerUnguardedMutant(result) ==
    IF IsNull(result) THEN [raised |-> "TypeError"]
    ELSE LET structuredData ==
                 IF Has(result, "structuredContent")
                 THEN result.structuredContent ELSE <<>>
         IN Merge([messages |-> IF Has(structuredData, "messages")
                                THEN structuredData.messages ELSE <<>>],
                  Pick(structuredData, {"description"}))

\* the prompt get handlers
PromptHandlerResult(result) ==
    LET structuredData ==
            IF ~IsNull(result) /\ Has(result, "structuredContent")
            THEN result.structuredContent ELSE <<>>
    IN Merge([messages |-> IF Has(structuredData, "messages")
                           THEN structuredData.messages ELSE <<>>],
             Pick(structuredData, {"description"}))

\* answers of the hub to a forwarded tool call, resource read and prompt get
ToolCallAnswers ==
    {Null,
     [tag |-> "result", content |-> <<[type |-> "text", text |-> "hi"]>>,
      isError |-> FALSE],
     [tag |-> "result", content |-> <<[type |-> "blob", text |-> "QUFB"],
                                      [type |-> "video"]>>,
      isError |-> TRUE, structuredContent |-> [x |-> "y"]]}
ResourceReadAnswers ==
    {Null,
     [tag |-> "result", content |-> <<[type |-> "text", text |-> "hi",
                                       uri |-> <<"x">>, mimeType |-> "image/png"],
                                      [type |-> "blob", text |-> "QUFB"]>>],
     [tag |-> "result", content |-> <<[type |-> "blob"]>>]}
PromptGetAnswers ==
    {Null,
     [tag |-> "result", content |-> <<>>],
     Structured([description |-> "d",
                 messages |-> <<[role |-> "user",
                                 content |-> [type |-> "text", text |-> "hi"]]>>]),
     Structured([description |-> "d"])}

----------------------------------------------------------------------------
(* The proxy: initialize(...), run(), and the calls it then serves *)

NotFetched == [st |-> "none", listing |-> <<>>]
FetchFailed == [st |-> "fail", listing |-> <<>>]
Fetched(listing) == [st |-> "ok", listing |-> listing]

FnIdle == [op |-> "idle"]
NoCall == [kind |-> "none"]

Init ==
    /\ pc = "start"
    /\ args = [server |-> <<>>, gateway |-> FALSE]
    /\ servers = <<>>
    /\ idx = 0
    /\ tools = {}
    /\ resources = {}
    /\ prompts = {}
    /\ metaFetch = "none"
    /\ discovery = "none"
    /\ toolFetch = [s \in ServerNames |-> NotFetched]
    /\ resFetch = [s \in ServerNames |-> NotFetched]
    /\ promptFetch = [s \in ServerNames |-> NotFetched]
    /\ lastCall = NoCall
    /\ fn = FnIdle
    /\ guard = FALSE

\* a branch that looks at the server name before the gateway flag
InitializeBranchNameFirstMutant(serverName, gateway) ==
    IF serverName # <<>> THEN "px_tools"
    ELSE IF gateway THEN "gw_meta"
    ELSE "exited"

\* initialize's "Branch based on mode": gateway mode, else single-server mode
\* when a server name is given, else a throw that ends the process
InitializeBranch(serverName, gateway) ==
    IF gateway THEN "gw_meta"
    ELSE IF serverName # <<>> THEN "px_tools"
    ELSE "exited"

\* initialize without its process.on('uncaughtException', ...) statement
InitializeNoGuardMutant ==
    /\ pc = "start"
    /\ \E values \in CommandLines : args' = proxyArgs(values)
    /\ guard' = guard
    /\ pc' = IF args'.gateway THEN "gw_meta"
             ELSE IF args'.server # <<>> THEN "px_tools"
             ELSE "exited"
    /\ UNCHANGED <<servers, idx, tools, resources, prompts, metaFetch,
                   discovery, toolFetch, resFetch, promptFetch, lastCall, fn>>

\* the entry callback: Utils.proxyArgs(), then initialize(...) up to its branch:
\* the 'uncaughtException' listener is installed first
Initialize ==
    /\ pc = "start"
    /\ \E values \in CommandLines : args' = proxyArgs(values)
    /\ guard' = TRUE
    /\ pc' = InitializeBranch(args'.server, args'.gateway)
    /\ UNCHANGED <<servers, idx, tools, resources, prompts, metaFetch,
                   discovery, toolFetch, resFetch, promptFetch, lastCall, fn>>

\* a failed meta listing that is logged and passed over
RegisterDiscoveryToolsSwallowMutant ==
    /\ pc = "gw_meta"
    /\ \E answer \in MetaListAnswers :
          IF ListToolsThrows(answer)
          THEN /\ metaFetch' = "fail"
               /\ pc' = "gw_discover"
               /\ tools' = tools
          ELSE LET r == RegisterToolList(tools, MCPHIVE_SERVER, FALSE,
                                         answer.structuredContent.tools, 1)
               IN /\ metaFetch' = "ok"
                  /\ tools' = r.table
                  /\ pc' = IF r.threw THEN "exited" ELSE "gw_discover"
    /\ UNCHANGED <<args, servers, idx, resources, prompts, discovery,
                   toolFetch, resFetch, promptFetch, lastCall, fn, guard>>

\* initializeGatewayMode, first step: registerDiscoveryTools.  A throw leaves
\* initialize, and the entry callback's catch ends the process.
RegisterDiscoveryTools ==
    /\ pc = "gw_meta"
    /\ \E answer \in MetaListAnswers :
          IF ListToolsThrows(answer)
          THEN /\ metaFetch' = "fail"
               /\ pc' = "exited"
               /\ tools' = tools
          ELSE LET r == RegisterToolList(tools, MCPHIVE_SERVER, FALSE,
                                         answer.structuredContent.tools, 1)
               IN /\ metaFetch' = "ok"
                  /\ tools' = r.table
                  /\ pc' = IF r.threw THEN "exited" ELSE "gw_discover"
    /\ UNCHANGED <<args, servers, idx, resources, prompts, discovery,
                   toolFetch, resFetch, promptFetch, lastCall, fn, guard>>

\* a failed discovery that throws instead of returning
DiscoverServersFatalMutant ==
    /\ pc = "gw_discover"
    /\ \E answer \in DiscoveryAnswers :
          IF DiscoveryFails(answer)
          THEN /\ discovery' = "fail"
               /\ pc' = "exited"
               /\ UNCHANGED <<servers, idx>>
          ELSE /\ discovery' = "ok"
               /\ servers' = answer.structuredContent.servers
               /\ idx' = 1
               /\ pc' = IF Len(servers') = 0 THEN "initialized" ELSE "gw_tools"
    /\ UNCHANGED <<args, tools, resources, prompts, metaFetch,
                   toolFetch, resFetch, promptFetch, lastCall, fn, guard>>

\* initializeGatewayMode, second step: the discoverServers call
DiscoverServers ==
    /\ pc = "gw_discover"
    /\ \E answer \in DiscoveryAnswers :
          IF DiscoveryFails(answer)
          THEN /\ discovery' = "fail"
               /\ pc' = "initialized"
               /\ UNCHANGED <<servers, idx>>
          ELSE /\ discovery' = "ok"
               /\ servers' = answer.structuredContent.servers
               /\ idx' = 1
               /\ pc' = IF Len(servers') = 0 THEN "initialized" ELSE "gw_tools"
    /\ UNCHANGED <<args, tools, resources, prompts, metaFetch,
                   toolFetch, resFetch, promptFetch, lastCall, fn, guard>>

\* a catch that leaves the loop instead of going on with the next server
NextServerStopMutant == idx' = idx /\ pc' = "initialized"

\* the loop "for (const server of discovery.servers)" moves to the next server
NextServer ==
    IF idx < Len(servers)
    THEN idx' = idx + 1 /\ pc' = "gw_tools"
    ELSE idx' = idx /\ pc' = "initialized"

\* registerServerTools(server.name); a throw is caught by the loop's catch,
\* which skips the server's resources and prompts
RegisterServerTools ==
    /\ pc = "gw_tools"
    /\ LET server == servers[idx].name
       IN \E answer \in ToolListAnswers(server) :
             IF ListToolsThrows(answer)
             THEN /\ toolFetch' = [toolFetch EXCEPT ![server] = FetchFailed]
                  /\ tools' = tools
                  /\ NextServer
             ELSE LET listing == answer.structuredContent.tools
                      r == RegisterToolList(tools, server, TRUE, listing, 1)
                  IN /\ toolFetch' = [toolFetch EXCEPT ![server] = Fetched(listing)]
                     /\ tools' = r.table
                     /\ IF r.threw THEN NextServer
                        ELSE pc' = "gw_resources" /\ idx' = idx
    /\ UNCHANGED <<args, servers, resources, prompts, metaFetch, discovery,
                   resFetch, promptFetch, lastCall, fn, guard>>

\* a resource failure that reaches the loop's catch, which skips the prompts
RegisterServerResourcesThrowMutant ==
    /\ pc = "gw_resources"
    /\ LET server == servers[idx].name
       IN \E answer \in ResourceListAnswers(server) :
             IF ListResourcesThrows(answer)
             THEN /\ resFetch' = [resFetch EXCEPT ![server] = FetchFailed]
                  /\ resources' = resources
                  /\ NextServer
             ELSE LET listing == answer.structuredContent.resources
                  IN /\ resFetch' = [resFetch EXCEPT ![server] = Fetched(listing)]
                     /\ resources' =
                            RegisterResourceList(resources, server, TRUE, listing, 1)
                     /\ pc' = "gw_prompts" /\ idx' = idx
    /\ UNCHANGED <<args, servers, tools, prompts, metaFetch, discovery,
                   toolFetch, promptFetch, lastCall, fn, guard>>

\* registerServerResources(server.name): its own try/catch swallows a failure
RegisterServerResources ==
    /\ pc = "gw_resources"
    /\ LET server == servers[idx].name
       IN \E answer \in ResourceListAnswers(server) :
             IF ListResourcesThrows(answer)
             THEN /\ resFetch' = [resFetch EXCEPT ![server] = FetchFailed]
                  /\ resources' = resources
             ELSE LET listing == answer.structuredContent.resources
                  IN /\ resFetch' = [resFetch EXCEPT ![server] = Fetched(listing)]
                     /\ resources' =
                            RegisterResourceList(resources, server, TRUE, listing, 1)
    /\ pc' = "gw_prompts"
    /\ UNCHANGED <<args, servers, idx, tools, prompts, metaFetch, discovery,
                   toolFetch, promptFetch, lastCall, fn, guard>>

\* registerServerPrompts(server.name): its own try/catch swallows a failure
RegisterServerPrompts ==
    /\ pc = "gw_prompts"
    /\ LET server == servers[idx].name
       IN \E answer \in PromptListAnswers(server) :
             IF ListPromptsThrows(answer)
             THEN /\ promptFetch' = [promptFetch EXCEPT ![server] = FetchFailed]
                  /\ prompts' = prompts
             ELSE LET listing == answer.structuredContent.prompts
                  IN /\ promptFetch' =
                            [promptFetch EXCEPT ![server] = Fetched(listing)]
                     /\ prompts' =
                            RegisterPromptList(prompts, server, TRUE, listing, 1)
    /\ NextServer
    /\ UNCHANGED <<args, servers, tools, resources, metaFetch, discovery,
                   toolFetch, resFetch, lastCall, fn, guard>>

\* initializeProxyMode, tools: a failed listing or a throw while registering
\* leaves initialize, and the entry callback's catch ends the process
ProxyRegisterTools ==
    /\ pc = "px_tools"
    /\ LET server == args.server
       IN \E answer \in ToolListAnswers(server) :
             IF ListToolsThrows(answer)
             THEN /\ toolFetch' = [toolFetch EXCEPT ![server] = FetchFailed]
                  /\ tools' = tools
                  /\ pc' = "exited"
             ELSE LET listing == answer.structuredContent.tools
                      r == RegisterToolList(tools, server, FALSE, listing, 1)
                  IN /\ toolFetch' = [toolFetch EXCEPT ![server] = Fetched(listing)]
                     /\ tools' = r.table
                     /\ pc' = IF r.threw THEN "exited" ELSE "px_resources"
    /\ UNCHANGED <<args, servers, idx, resources, prompts, metaFetch,
                   discovery, resFetch, promptFetch, lastCall, fn, guard>>

\* initializeProxyMode, resources: optional, a failure is logged
ProxyRegisterResources ==
    /\ pc = "px_resources"
    /\ LET server == args.server
       IN \E answer \in ResourceListAnswers(server) :
             IF ListResourcesThrows(answer)
             THEN /\ resFetch' = [resFetch EXCEPT ![server] = FetchFailed]
                  /\ resources' = resources
             ELSE LET listing == answer.structuredContent.resources
                  IN /\ resFetch' = [resFetch EXCEPT ![server] = Fetched(listing)]
                     /\ resources' =
                            RegisterResourceList(resources, server, FALSE, listing, 1)
    /\ pc' = "px_prompts"
    /\ UNCHANGED <<args, servers, idx, tools, prompts, metaFetch, discovery,
                   toolFetch, promptFetch, lastCall, fn, guard>>

\* initializeProxyMode, prompts: optional, a failure is logged
ProxyRegisterPrompts ==
    /\ pc = "px_prompts"
    /\ LET server == args.server
       IN \E answer \in PromptListAnswers(server) :
             IF ListPromptsThrows(answer)
             THEN /\ promptFetch' = [promptFetch EXCEPT ![server] = FetchFailed]
                  /\ prompts' = prompts
             ELSE LET listing == answer.structuredContent.prompts
                  IN /\ promptFetch' =
                            [promptFetch EXCEPT ![server] = Fetched(listing)]
                     /\ prompts' =
                            RegisterPromptList(prompts, server, FALSE, listing, 1)
    /\ pc' = "initialized"
    /\ UNCHANGED <<args, servers, idx, tools, resources, metaFetch,
                   discovery, toolFetch, resFetch, lastCall, fn, guard>>

\* a connection made before initialize has completed
RunEarlyMutant ==
    /\ pc \notin {"start", "exited", "serving"}
    /\ pc' = "serving"
    /\ UNCHANGED <<args, servers, idx, tools, resources, prompts, metaFetch,
                   discovery, toolFetch, resFetch, promptFetch, lastCall, fn, guard>>

\* run(): the transport is connected
Run ==
    /\ pc = "initialized"
    /\ pc' = "serving"
    /\ UNCHANGED <<args, servers, idx, tools, resources, prompts, metaFetch,
                   discovery, toolFetch, resFetch, promptFetch, lastCall, fn, guard>>

\* an inbound tools/call for a registered tool: one forwarding call with the
\* handler's captured server and tool name, then the conversion of its answer
CallTool ==
    /\ pc = "serving"
    /\ lastCall = NoCall
    /\ \E entry \in tools, answer \in ToolCallAnswers :
          lastCall' = [kind |-> "tool", name |-> entry.name,
                       forwards |-> <<Forward(entry.server, METHOD_TOOLS_CALL,
                                              entry.toolName)>>,
                       answer |-> answer,
                       result |-> ToolHandlerResult(answer)]
    /\ UNCHANGED <<pc, args, servers, idx, tools, resources, prompts,
                   metaFetch, discovery, toolFetch, resFetch, promptFetch, fn, guard>>

\* an inbound resources/read for a registered resource
ReadResource ==
    /\ pc = "serving"
    /\ lastCall = NoCall
    /\ \E entry \in resources, answer \in ResourceReadAnswers :
          lastCall' = [kind |-> "resource", name |-> entry.uri,
                       forwards |-> <<Forward(entry.server, METHOD_RESOURCES_READ,
                                              entry.resourceUri)>>,
                       answer |-> answer,
                       result |-> ResourceHandlerResult(entry, answer)]
    /\ UNCHANGED <<pc, args, servers, idx, tools, resources, prompts,
                   metaFetch, discovery, toolFetch, resFetch, promptFetch, fn, guard>>

\* an inbound prompts/get for a registered prompt
GetPrompt ==
    /\ pc = "serving"
    /\ lastCall = NoCall
    /\ \E entry \in prompts, answer \in PromptGetAnswers :
          lastCall' = [kind |-> "prompt", name |-> entry.name,
                       forwards |-> <<Forward(entry.server, METHOD_PROMPTS_GET,
                                              entry.promptName)>>,
                       answer |-> answer,
                       result |-> PromptHandlerResult(answer)]
    /\ UNCHANGED <<pc, args, servers, idx, tools, resources, prompts,
                   metaFetch, discovery, toolFetch, resFetch, promptFetch, fn, guard>>

\* the handler's result goes back to the client over the transport, and the
\* proxy waits for the next request
Respond ==
    /\ pc = "serving"
    /\ lastCall.kind \in {"tool", "resource", "prompt", "rejected"}
    /\ lastCall' = NoCall
    /\ UNCHANGED <<pc, args, servers, idx, tools, resources, prompts,
                   metaFetch, discovery, toolFetch, resFetch, promptFetch, fn, guard>>

\* tool names a client may call that need not be registered: a name no
\* server lists, a local name without its server, a namespaced unlisted name
UnregisteredNames ==
    {<<"z">>, ToolNames[1], makeNamespacedName(AllServers[1], <<"z">>)}

\* an inbound tools/call for a name that has no registered handler: nothing
\* of the proxy runs, the SDK answers with an error
CallUnknown ==
    /\ pc = "serving"
    /\ lastCall = NoCall
    /\ \E name \in UnregisteredNames :
          /\ ~Registered(tools, "name", name)
          /\ lastCall' = [kind |-> "rejected", name |-> name, forwards |-> <<>>]
    /\ UNCHANGED <<pc, args, servers, idx, tools, resources, prompts,
                   metaFetch, discovery, toolFetch, resFetch, promptFetch, fn, guard>>

\* an exception that nothing catches reaches the process (the SDK raises such
\* exceptions on its own errors): with the listener installed it is logged
\* and the process goes on; without a listener the process ends
UncaughtException ==
    /\ pc # "exited"
    /\ lastCall = NoCall
    /\ IF guard
       THEN pc' = pc /\ lastCall' = [kind |-> "uncaught"]
       ELSE pc' = "exited" /\ lastCall' = lastCall
    /\ UNCHANGED <<args, servers, idx, tools, resources, prompts, metaFetch,
                   discovery, toolFetch, resFetch, promptFetch, fn, guard>>

\* the listener has logged the exception
LogUncaught ==
    /\ lastCall.kind = "uncaught"
    /\ lastCall' = NoCall
    /\ UNCHANGED <<pc, args, servers, idx, tools, resources, prompts, metaFetch,
                   discovery, toolFetch, resFetch, promptFetch, fn, guard>>

Next ==
    \/ Initialize
    \/ RegisterDiscoveryTools
    \/ DiscoverServers
    \/ RegisterServerTools
    \/ RegisterServerResources
    \/ RegisterServerPrompts
    \/ ProxyRegisterTools
    \/ ProxyRegisterResources
    \/ ProxyRegisterPrompts
    \/ Run
    \/ CallTool
    \/ ReadResource
    \/ GetPrompt
    \/ CallUnknown
    \/ Respond
    \/ UncaughtException
    \/ LogUncaught

Spec == Init /\ [][Next]_vars

----------------------------------------------------------------------------
(* The pure functions on their own: namespacing and input-shape inference *)

\* the characters names are tried with: a letter and the separator's character
NameChars == {"a", "_"}
Names == SeqsUpTo(NameChars, MaxLen)
\* the names a client may send
InboundNames == SeqsUpTo(NameChars, MaxLen + Len(NAMESPACE_SEPARATOR))

StringDescriptor == [type |-> "string"]
PropertyNames == {"a", "b", "0", "length"}
\* parsed input_schema objects: every property a plain string
FnSpecs == {[k \in ks |-> StringDescriptor] : ks \in SUBSET PropertyNames}
FnRequiredInputs == SeqsUpTo({"a", "b", "length"}, 2)
\* tool inputs: some of the properties given, as strings, or a as a number
FnInputs ==
    {JsObject([k \in ks |-> JsString("x")]) : ks \in SUBSET PropertyNames}
      \cup {JsObject([a |-> JsNumber(1)])}

\* how a statement of sendMCPHiveRequest ends
Returned(value) == [k |-> "return", value |-> value]
Raised(error) == [k |-> "raise", error |-> error]

\* what the hub's HTTP endpoint may do with one request: the body cannot be
\* serialized (JSON.stringify throws a TypeError), fetch rejects (TypeError),
\* a status that is not OK, a body that is not JSON, a JSON body
HttpOutcomes ==
    {[kind |-> "unserializable"], [kind |-> "network"]}
      \cup {[kind |-> "status", ok |-> FALSE, status |-> st] : st \in {404, 500}}
      \cup {[kind |-> "body", ok |-> TRUE, text |-> MalformedText]}
      \cup {[kind |-> "body", ok |-> TRUE, text |-> JsonText(v)] :
               v \in ToolCallAnswers \cup PromptGetAnswers}

\* the try block: fetch, the response.ok test, response.json()
TryFetch(outcome) ==
    CASE outcome.kind \in {"unserializable", "network"} -> Raised("TypeError")
      [] outcome.kind = "status" -> Raised("Error")
      [] outcome.kind = "body" ->
            IF JSONParseThrows(outcome.text) THEN Raised("SyntaxError")
            ELSE Returned(JSONParse(outcome.text))

\* a catch block that gives null for a connection failure only and lets any
\* other error go
SendRethrowMutant(outcome) ==
    LET r == TryFetch(outcome)
    IN IF r.k = "raise" /\ r.error = "TypeError" THEN Returned(Null) ELSE r

\* sendMCPHiveRequest: both arms of the catch block return null
sendMCPHiveRequest(outcome) ==
    LET r == TryFetch(outcome)
    IN IF r.k = "raise"
       THEN IF r.error = "TypeError" THEN Returned(Null) ELSE Returned(Null)
       ELSE r

\* an object with property f set to one of vals, or without it
OptField(f, vals) == {<<>>} \cup {[k \in {f} |-> v] : v \in vals}

\* response content entries: every recognized tag and an unrecognized one,
\* with their payload properties present, empty or absent
RecognizedTypes == {"text", "image", "audio", "resource", "resource_link", "blob"}
InnerResources ==
    {<<>>,
     [uri |-> "u", text |-> "t"],
     [uri |-> "u", blob |-> "QUFB"],
     [uri |-> "u", blob |-> ""],
     [uri |-> "u", blob |-> "QUFB", text |-> "t", mimeType |-> "text/plain"]}
ContentEntries ==
    {Merge([type |-> t], Merge(a, b)) :
        t \in {"text", "blob", "video"},
        a \in OptField("text", {"", "QUFB"}),
        b \in OptField("data", {"AAAA"})}
      \cup {Merge([type |-> t], Merge(a, b)) :
               t \in {"image", "audio"},
               a \in OptField("data", {"AAAA"}),
               b \in OptField("mimeType", {"image/png"})}
      \cup {Merge([type |-> "resource"], a) : a \in OptField("resource", InnerResources)}
      \cup {Merge([type |-> "resource_link"], Merge(a, Merge(b, c))) :
               a \in OptField("uri", {"u"}),
               b \in OptField("name", {"n"}),
               c \in OptField("description", {"d"})}

\* type descriptors, one or more for every branch of scanObject, each also
\* with nullable set and cleared
NumberType == [type |-> "number"]
BooleanType == [type |-> "boolean"]
BaseDescriptors ==
    {[const |-> JsString("x")],
     [const |-> JsString("x"), type |-> "number"],
     [anyOf |-> <<StringDescriptor, NumberType>>],
     [anyOf |-> <<NumberType>>, type |-> "string"],
     [anyOf |-> <<>>, type |-> "string"],
     [const |-> JsNumber(1), anyOf |-> <<StringDescriptor, BooleanType>>],
     [oneOf |-> <<NumberType>>, allOf |-> <<StringDescriptor, StringDescriptor>>,
      type |-> "boolean"],
     [oneOf |-> <<StringDescriptor, BooleanType>>],
     [oneOf |-> <<BooleanType>>],
     [allOf |-> <<StringDescriptor, [type |-> "string", minLength |-> 1]>>],
     [allOf |-> <<StringDescriptor, NumberType>>],
     [type |-> "null"],
     [type |-> "object", properties |-> [a |-> StringDescriptor]],
     [type |-> "object",
      properties |-> [a |-> [type |-> "object",
                             properties |-> [b |-> NumberType]]]],
     [type |-> "object", additionalProperties |-> StringDescriptor],
     [type |-> "array", prefixItems |-> <<StringDescriptor>>],
     [type |-> "array", items |-> StringDescriptor],
     [type |-> "string", enum |-> <<"x", "y">>],
     [type |-> "string", enum |-> <<"x">>, minLength |-> 2],
     StringDescriptor,
     [type |-> "string", pattern |-> "^x", maxLength |-> 1],
     [type |-> "string", pattern |-> "("],
     NumberType,
     [type |-> "integer", minimum |-> 1],
     BooleanType,
     [type |-> "tuple"],
     [description |-> "d"]}
ScanDescriptors ==
    {Merge(b, n) : b \in BaseDescriptors, n \in OptField("nullable", BOOLEAN)}

\* the values validators are tried on
ScanValues ==
    {JsNull, JsUndefined, JsString("x"), JsString("xy"), JsString(""),
     JsNumber(0), JsNumber(1), JsBoolean(TRUE),
     JsObject(<<>>), JsObject([a |-> JsString("x")]),
     JsObject([a |-> JsObject(<<>>)]), JsObject([a |-> JsNumber(1)]),
     JsArray(<<>>), JsArray(<<JsString("x")>>), JsArray(<<JsNumber(1)>>)}

InitFn == Init

\* makeNamespacedName(serverName, itemName)
MakeName ==
    /\ fn = FnIdle
    /\ \E serverName \in Names, itemName \in Names :
          fn' = [op |-> "make", serverName |-> serverName, itemName |-> itemName,
                 name |-> makeNamespacedName(serverName, itemName)]
    /\ UNCHANGED gwVars

\* parseNamespacedName of the name just made
ParseName ==
    /\ fn.op = "make"
    /\ fn' = Merge([op |-> "parse", serverName |-> fn.serverName,
                    itemName |-> fn.itemName, name |-> fn.name,
                    threw |-> ParseThrows(fn.name)],
                   IF ParseThrows(fn.name) THEN <<>>
                   ELSE [parsed |-> parseNamespacedName(fn.name)])
    /\ UNCHANGED gwVars

\* parseNamespacedName of a name that came from outside
ParseInbound ==
    /\ fn = FnIdle
    /\ \E name \in InboundNames :
          fn' = Merge([op |-> "parseInbound", name |-> name,
                       threw |-> ParseThrows(name)],
                      IF ParseThrows(name) THEN <<>>
                      ELSE [parsed |-> parseNamespacedName(name)])
    /\ UNCHANGED gwVars

\* inferZodRawShapeFromSpec(spec, required_inputs)
Infer ==
    /\ fn = FnIdle
    /\ \E spec \in FnSpecs, required_inputs \in FnRequiredInputs :
          fn' = [op |-> "infer", spec |-> spec, required_inputs |-> required_inputs,
                 rawShape |-> inferZodRawShapeFromSpec(spec, required_inputs)]
    /\ UNCHANGED gwVars

\* the inferred shape validates a tool input
Validate ==
    /\ fn.op = "infer"
    /\ ~Threw(fn.rawShape)
    /\ \E input \in FnInputs :
          fn' = [op |-> "validate", spec |-> fn.spec,
                 required_inputs |-> fn.required_inputs,
                 rawShape |-> fn.rawShape, input |-> input,
                 accepted |-> AcceptsInput(fn.rawShape, input)]
    /\ UNCHANGED gwVars

\* one call of sendMCPHiveRequest against the hub's endpoint
SendRequest ==
    /\ fn = FnIdle
    /\ \E outcome \in HttpOutcomes :
          fn' = [op |-> "send", outcome |-> outcome,
                 completion |-> sendMCPHiveRequest(outcome)]
    /\ UNCHANGED gwVars

\* convertToSDKContent(entry)
Convert ==
    /\ fn = FnIdle
    /\ \E entry \in ContentEntries :
          fn' = [op |-> "convert", entry |-> entry,
                 out |-> convertToSDKContent(entry)]
    /\ UNCHANGED gwVars

\* scanObject(descriptor)
Scan ==
    /\ fn = FnIdle
    /\ \E descriptor \in ScanDescriptors :
          fn' = [op |-> "scan", descriptor |-> descriptor,
                 validator |-> scanObject(descriptor)]
    /\ UNCHANGED gwVars

\* the scanned validator is run on a value
Check ==
    /\ fn.op = "scan"
    /\ ~Threw(fn.validator)
    /\ \E value \in ScanValues :
          fn' = [op |-> "check", descriptor |-> fn.descriptor,
                 validator |-> fn.validator, value |-> value,
                 accepted |-> Accepts(fn.validator, value)]
    /\ UNCHANGED gwVars

NextFn ==
    \/ MakeName
    \/ ParseName
    \/ ParseInbound
    \/ Infer
    \/ Validate
    \/ SendRequest
    \/ Convert
    \/ Scan
    \/ Check

SpecFn == InitFn /\ [][NextFn]_vars

----------------------------------------------------------------------------
(* Properties *)

\* s contains sep somewhere
Contains(s, sep) ==
    \E i \in 1..(Len(s) - Len(sep) + 1) : SubSeq(s, i, i + Len(sep) - 1) = sep
EndsWith(s, c) == Len(s) > 0 /\ s[Len(s)] = c

\* initialize has completed
Finished == pc \in {"initialized", "serving"}
\* what a server listed, by local name or uri
Listed(fetch, s, f) ==
    IF fetch[s].st = "ok"
    THEN {fetch[s].listing[i][f] : i \in DOMAIN fetch[s].listing}
    ELSE {}
ToolsOf(s) == {e \in tools : e.server = s}
ResourcesOf(s) == {e \in resources : e.server = s}
PromptsOf(s) == {e \in prompts : e.server = s}
\* everything server s listed is in the table under its namespaced name
ToolsPresent(s) ==
    \A t \in Listed(toolFetch, s, "name") :
        \E e \in ToolsOf(s) : e.name = s \o NAMESPACE_SEPARATOR \o t /\ e.toolName = t
ResourcesPresent(s) ==
    \A u \in Listed(resFetch, s, "uri") :
        \E e \in ResourcesOf(s) :
            e.uri = s \o NAMESPACE_SEPARATOR \o u /\ e.resourceUri = u
PromptsPresent(s) ==
    \A m \in Listed(promptFetch, s, "name") :
        \E e \in PromptsOf(s) :
            e.name = s \o NAMESPACE_SEPARATOR \o m /\ e.promptName = m
\* the servers enumerated after the i-th have all been attempted
LaterAttempted(i) ==
    \A j \in (i + 1)..Len(servers) : toolFetch[servers[j].name].st # "none"

\* C1: in gateway mode, two distinct servers that each list a tool of the same
\* local name each get exactly one entry, named server___tool, and a call of an
\* entry is forwarded to that entry's own server with the local tool name
C1_SameNameToolsEachRegistered ==
    Finished /\ args.gateway =>
        \A s1, s2 \in ServerNames :
            \A t \in Listed(toolFetch, s1, "name") \cap Listed(toolFetch, s2, "name") :
                s1 # s2 =>
                    /\ Cardinality({e \in tools :
                                      e.name = s1 \o NAMESPACE_SEPARATOR \o t}) = 1
                    /\ \A e \in tools :
                          e.name = s1 \o NAMESPACE_SEPARATOR \o t =>
                              e.server = s1 /\ e.toolName = t
                    /\ lastCall.kind = "tool"
                         /\ lastCall.name = s1 \o NAMESPACE_SEPARATOR \o t =>
                            /\ Len(lastCall.forwards) = 1
                            /\ lastCall.forwards[1].mcpServer = s1
                            /\ lastCall.forwards[1].name = t

\* C2 as stated: for every server name and item name that do not contain the
\* separator, parsing the made name gives the pair back
C2_RoundTripSeparatorFree ==
    fn.op = "parse"
      /\ ~Contains(fn.serverName, NAMESPACE_SEPARATOR)
      /\ ~Contains(fn.itemName, NAMESPACE_SEPARATOR) =>
        /\ ~fn.threw
        /\ fn.parsed = [serverName |-> fn.serverName, itemName |-> fn.itemName]

\* C2 as amended: for every server name and item name that do not contain the
\* separator, the server name moreover not ending in "_", parsing the made
\* name gives the pair back
C2_RoundTripNoTrailingUnderscore ==
    fn.op = "parse"
      /\ ~Contains(fn.serverName, NAMESPACE_SEPARATOR)
      /\ ~Contains(fn.itemName, NAMESPACE_SEPARATOR)
      /\ ~EndsWith(fn.serverName, "_") =>
        /\ ~fn.threw
        /\ fn.parsed = [serverName |-> fn.serverName, itemName |-> fn.itemName]

\* a round trip where the item name begins and the server name is led by "_"
C2_Witness ==
    /\ fn.op = "parse"
    /\ fn.serverName = <<"_", "a">>
    /\ fn.itemName = <<"_", "_">>
    /\ ~fn.threw
    /\ fn.parsed = [serverName |-> <<"_", "a">>, itemName |-> <<"_", "_">>]

\* C3: when the forwarding call of a tool invocation returns null, the handler
\* returns isError = true and an empty content list
C3_NullForwardIsError ==
    lastCall.kind = "tool" /\ IsNull(lastCall.answer) =>
        /\ lastCall.result.content = <<>>
        /\ Has(lastCall.result, "isError")
        /\ lastCall.result.isError = TRUE

\* C4: in gateway mode with servers A, B, C in this order, if B's tool listing
\* fails then every tool, resource and prompt listed by A and by C is in the
\* table after initialization
C4_NeighboursFullyRegistered ==
    Finished /\ args.gateway /\ Len(servers) = 3
      /\ toolFetch[servers[2].name].st = "fail" =>
        \A s \in {servers[1].name, servers[3].name} :
            ToolsPresent(s) /\ ResourcesPresent(s) /\ PromptsPresent(s)

\* C5: a property is required iff its name is one of the values of
\* required_inputs: an input is accepted iff every property it gives is a
\* string and every property it omits is not named in required_inputs
C5_RequiredIffNamed ==
    fn.op = "validate" =>
        (fn.accepted <=>
            \A p \in DOMAIN fn.spec :
                IF p \in DOMAIN fn.input.fields
                THEN fn.input.fields[p].t = "string"
                ELSE p \notin Range(fn.required_inputs))

\* C6: in gateway mode, a server whose tool listing failed has no tool, no
\* resource and no prompt in the table, its resources and prompts were never
\* asked for, the process goes on, and once initialization has completed every
\* server enumerated after it has been attempted
C6_FailedServerSkippedOthersContinue ==
    args.gateway =>
        \A i \in 1..Len(servers) :
            LET s == servers[i].name
            IN toolFetch[s].st = "fail" =>
                  /\ ToolsOf(s) = {} /\ ResourcesOf(s) = {} /\ PromptsOf(s) = {}
                  /\ resFetch[s].st = "none" /\ promptFetch[s].st = "none"
                  /\ pc # "exited"
                  /\ (Finished => LaterAttempted(i))

\* the second of three servers failed, the first and the third are registered
C6_Witness ==
    /\ Finished /\ args.gateway /\ Len(servers) = 3
    /\ toolFetch[servers[2].name].st = "fail"
    /\ ToolsOf(servers[1].name) # {}
    /\ ToolsOf(servers[3].name) # {}
    /\ PromptsOf(servers[3].name) # {}

\* C7: in gateway mode, after initialization, a server whose resource listing
\* failed has all its listed tools registered and its prompts were asked for
\* and, when listed, registered; a server whose prompt listing failed has its
\* listed tools and resources registered; in both cases every later server
\* has been attempted
C7_OptionalListingFailureSkipsOnlyItsClass ==
    Finished /\ args.gateway =>
        \A i \in 1..Len(servers) :
            LET s == servers[i].name
            IN /\ resFetch[s].st = "fail" =>
                    /\ toolFetch[s].st = "ok" /\ ToolsPresent(s)
                    /\ promptFetch[s].st # "none" /\ PromptsPresent(s)
                    /\ ResourcesOf(s) = {}
                    /\ LaterAttempted(i)
               /\ promptFetch[s].st = "fail" =>
                    /\ toolFetch[s].st = "ok" /\ ToolsPresent(s)
                    /\ resFetch[s].st # "none" /\ ResourcesPresent(s)
                    /\ PromptsOf(s) = {}
                    /\ LaterAttempted(i)

\* the first server lost its resources and kept tools and prompts, the second
\* lost its prompts and kept tools and resources
C7_Witness ==
    /\ Finished /\ args.gateway /\ Len(servers) >= 2
    /\ resFetch[servers[1].name].st = "fail"
    /\ ToolsOf(servers[1].name) # {} /\ PromptsOf(servers[1].name) # {}
    /\ promptFetch[servers[2].name].st = "fail"
    /\ ToolsOf(servers[2].name) # {} /\ ResourcesOf(servers[2].name) # {}

\* C8: in single-server mode a failed tool listing ends initialization with
\* nothing registered; when initialization completes every listed tool is
\* registered, a failed resource (prompt) listing leaves exactly that class
\* empty and the other class registered, and every name is the local name
C8_SingleServerFailures ==
    ~args.gateway /\ pc # "start" /\ args.server # <<>> =>
        LET s == args.server
        IN /\ toolFetch[s].st = "fail" =>
                pc = "exited" /\ tools = {} /\ resources = {} /\ prompts = {}
           /\ Finished =>
                /\ toolFetch[s].st = "ok"
                /\ {e.name : e \in tools} = Listed(toolFetch, s, "name")
                /\ {e.uri : e \in resources} = Listed(resFetch, s, "uri")
                /\ {e.name : e \in prompts} = Listed(promptFetch, s, "name")
                /\ resFetch[s].st # "none" /\ promptFetch[s].st # "none"
                /\ \A e \in tools : e.name = e.toolName /\ e.server = s
                /\ \A e \in resources : e.uri = e.resourceUri /\ e.server = s
                /\ \A e \in prompts : e.name = e.promptName /\ e.server = s

\* single-server mode completed without resources, with tools and prompts
C8_Witness ==
    /\ ~args.gateway /\ Finished
    /\ resFetch[args.server].st = "fail"
    /\ promptFetch[args.server].st = "ok"
    /\ Cardinality(tools) = MaxTools
    /\ prompts # {} /\ resources = {}

\* C9: in gateway mode, when the discovery call fails, initialization
\* completes (the process is not ended), no server is enumerated or asked for
\* anything, and the table holds exactly the meta tools
C9_DiscoveryFailureLeavesMetaOnly ==
    discovery = "fail" =>
        /\ Finished
        /\ servers = <<>>
        /\ \A s \in ServerNames : toolFetch[s].st = "none"
        /\ {e.name : e \in tools} = Range(MetaToolNames)
        /\ \A e \in tools : e.server = MCPHIVE_SERVER
        /\ resources = {} /\ prompts = {}

\* discovery failed and the proxy serves a meta tool
C9_Witness ==
    /\ discovery = "fail" /\ pc = "serving"
    /\ lastCall.kind = "tool"
    /\ lastCall.name = MCPHIVE_TOOL_LIST_TOOLS

\* a call of a meta tool (gateway mode, unnamespaced name)
MetaCall ==
    /\ args.gateway
    /\ lastCall.kind = "tool"
    /\ lastCall.name \in Range(MetaToolNames)

C11_ForwardReturnsBodyOrNull ==
    fn.op = "send" =>
        /\ fn.completion.k = "return"
        /\ fn.completion.value =
              IF fn.outcome.kind = "body" /\ fn.outcome.text.text = "json"
              THEN fn.outcome.text.value
              ELSE Null

\* a status that is not OK has given null
C11_Witness ==
    /\ fn.op = "send"
    /\ fn.outcome.kind = "status"
    /\ fn.completion = [k |-> "return", value |-> Null]

\* the capability table
Table == <<tools, resources, prompts>>

\* C12: the transport is connected only after initialize has completed, every
\* change of the table is a step of initialize made before that, and no step
\* taken while serving (or after initialize has completed) changes the table
C12_TableFixedBeforeServing ==
    [][/\ (pc' = "serving" => pc \in {"initialized", "serving"})
       /\ (Table' # Table =>
              pc \in {"gw_meta", "gw_tools", "gw_resources", "gw_prompts",
                      "px_tools", "px_resources", "px_prompts"})
       /\ (pc \in {"initialized", "serving"} => Table' = Table)]_vars

\* a prompt handler has run while serving a table of meta and server tools
C12_Witness ==
    /\ pc = "serving"
    /\ lastCall.kind = "prompt"
    /\ Cardinality(tools) > Len(MetaToolNames)

C14_CompileNeverFailsRegistration ==
    /\ Finished /\ args.gateway =>
          \A i \in 1..Len(servers) : ToolsPresent(servers[i].name)
    /\ pc = "exited" /\ guard =>
          \/ metaFetch = "fail"
          \/ ~args.gateway /\ toolFetch[args.server].st = "fail"

\* a forwarding call's method is the one of the handler's kind
MethodMatchesKind ==
    lastCall.forwards[1].method =
        CASE lastCall.kind = "tool" -> "tools/call"
          [] lastCall.kind = "resource" -> "resources/read"
          [] lastCall.kind = "prompt" -> "prompts/get"

\* an inbound tool call, served or rejected, whose name has no separator and
\* is not a meta tool's
SeparatorFreeCall ==
    /\ lastCall.kind \in {"tool", "rejected"}
    /\ ~Contains(lastCall.name, NAMESPACE_SEPARATOR)
    /\ lastCall.name \notin Range(MetaToolNames)

\* C15 as stated: decoding a name without the separator fails, and an inbound
\* call of such a name that is not a meta tool is rejected, not forwarded
C15_SeparatorFreeNameRejected ==
    SeparatorFreeCall =>
        /\ ParseThrows(lastCall.name)
        /\ lastCall.kind = "rejected"
        /\ lastCall.forwards = <<>>

\* C15 as amended: decoding a name without the separator fails, and in gateway
\* mode an inbound call of such a name that is not a meta tool is rejected,
\* not forwarded
C15_SeparatorFreeNameRejectedInGateway ==
    SeparatorFreeCall =>
        /\ ParseThrows(lastCall.name)
        /\ args.gateway => lastCall.kind = "rejected" /\ lastCall.forwards = <<>>

\* gateway mode: a local name called without its server has been rejected
\* while the same tool is registered under its namespaced name
C15_Witness ==
    /\ args.gateway
    /\ lastCall.kind = "rejected"
    /\ lastCall.name = ToolNames[1]
    /\ \E e \in tools : e.toolName = ToolNames[1]

\* a call of a namespaced entry in gateway mode
NamespacedCall ==
    /\ args.gateway
    /\ lastCall.kind \in {"tool", "resource", "prompt"}
    /\ Contains(lastCall.name, NAMESPACE_SEPARATOR)

\* C16 as stated: a call of a namespaced entry forwards the pair that
\* splitting the exposed name at the first separator gives, with the method of
\* the entry's kind
C16_ForwardsFirstSplit ==
    NamespacedCall =>
        /\ Len(lastCall.forwards) = 1
        /\ lastCall.forwards[1].mcpServer =
              SubSeq(lastCall.name, 1,
                     IndexOf(lastCall.name, NAMESPACE_SEPARATOR))
        /\ lastCall.forwards[1].name =
              SubSeq(lastCall.name,
                     IndexOf(lastCall.name, NAMESPACE_SEPARATOR)
                        + Len(NAMESPACE_SEPARATOR) + 1,
                     Len(lastCall.name))
        /\ MethodMatchesKind

\* C16 as amended: a call of a namespaced entry forwards the pair (server,
\* local name) the entry was registered with: the server is an enumerated one,
\* the exposed name is server + separator + local name, and the method is the
\* one of the entry's kind; the pair is the split at the first separator
\* whenever the server's name does not end in "_"
C16_ForwardsRegisteredPair ==
    NamespacedCall =>
        /\ Len(lastCall.forwards) = 1
        /\ \E i \in 1..Len(servers) :
              lastCall.forwards[1].mcpServer = servers[i].name
        /\ lastCall.name = lastCall.forwards[1].mcpServer
                              \o NAMESPACE_SEPARATOR \o lastCall.forwards[1].name
        /\ MethodMatchesKind
        /\ ~EndsWith(lastCall.forwards[1].mcpServer, "_") =>
              /\ lastCall.forwards[1].mcpServer =
                    SubSeq(lastCall.name, 1,
                           IndexOf(lastCall.name, NAMESPACE_SEPARATOR))
              /\ lastCall.forwards[1].name =
                    SubSeq(lastCall.name,
                           IndexOf(lastCall.name, NAMESPACE_SEPARATOR)
                              + Len(NAMESPACE_SEPARATOR) + 1,
                           Len(lastCall.name))

\* a resource of the second server has been read
C16_Witness ==
    /\ NamespacedCall
    /\ lastCall.kind = "resource"
    /\ lastCall.forwards[1].mcpServer = AllServers[2]
    /\ lastCall.forwards[1].method = "resources/read"

\* C17: a response entry of a recognized tag becomes one entry of the fixed
\* tag: text, image, audio, resource, resource_link keep theirs and blob
\* becomes text with the text payload unchanged; a missing text payload
\* becomes "" and a missing image/audio mimeType application/octet-stream
C17_RecognizedTagsNormalized ==
    fn.op = "convert" /\ fn.entry.type \in RecognizedTypes =>
        /\ fn.out.type = IF fn.entry.type = "blob" THEN "text" ELSE fn.entry.type
        /\ fn.entry.type \in {"text", "blob"} =>
              fn.out = [type |-> "text",
                        text |-> IF Has(fn.entry, "text") THEN fn.entry.text
                                 ELSE ""]
        /\ fn.entry.type \in {"image", "audio"} =>
              /\ DOMAIN fn.out = {"type", "data", "mimeType"}
              /\ fn.out.data = IF Has(fn.entry, "data") THEN fn.entry.data ELSE ""
              /\ fn.out.mimeType = IF Has(fn.entry, "mimeType")
                                   THEN fn.entry.mimeType
                                   ELSE "application/octet-stream"

\* a legacy blob entry has become a text entry with the same payload
C17_Witness ==
    /\ fn.op = "convert"
    /\ fn.entry = [type |-> "blob", text |-> "QUFB"]
    /\ fn.out = [type |-> "text", text |-> "QUFB"]

\* C18: a response entry of an unrecognized tag becomes a text entry whose
\* text is the entry's text property whenever the entry has one, and the
\* serialized entry only when it has none
C18_UnrecognizedTagUsesTextIfPresent ==
    fn.op = "convert" /\ fn.entry.type \notin RecognizedTypes =>
        fn.out = [type |-> "text",
                  text |-> IF Has(fn.entry, "text") THEN fn.entry.text
                           ELSE JSONStringify(fn.entry)]

\* C19: in a resource read result every contents entry has exactly one of
\* blob and text: the payload of a blob-tagged response entry is in blob, the
\* payload of any other entry in text (gateway and single-server mode)
C19_ReadResultBlobOrText ==
    lastCall.kind = "resource" =>
        LET content == IF IsNull(lastCall.answer) \/ ~Has(lastCall.answer, "content")
                       THEN <<>> ELSE lastCall.answer.content
            contents == lastCall.result.contents
        IN /\ Len(contents) = Len(content)
           /\ \A i \in 1..Len(content) :
                 LET payload == IF Has(content[i], "text") THEN content[i].text
                                ELSE ""
                 IN IF content[i].type = "blob"
                    THEN /\ Has(contents[i], "blob") /\ ~Has(contents[i], "text")
                         /\ contents[i].blob = payload
                    ELSE /\ Has(contents[i], "text") /\ ~Has(contents[i], "blob")
                         /\ contents[i].text = payload

\* single-server mode: a read gave a text entry followed by a blob entry
C19_Witness ==
    /\ ~args.gateway
    /\ lastCall.kind = "resource"
    /\ Len(lastCall.result.contents) = 2
    /\ Has(lastCall.result.contents[1], "text")
    /\ Has(lastCall.result.contents[2], "blob")

\* C20: a descriptor with nullable: true compiles, whichever branch gave its
\* base validator, to a validator that accepts null
C20_NullableAcceptsNull ==
    fn.op = "check"
      /\ Has(fn.descriptor, "nullable") /\ fn.descriptor.nullable
      /\ fn.value = JsNull =>
        fn.accepted

\* C21: scanObject alone makes no member required: the validator compiled
\* from an object descriptor with properties accepts the object from which
\* those properties are absent
C21_ScanMakesNoMemberRequired ==
    fn.op = "check"
      /\ Has(fn.descriptor, "type") /\ fn.descriptor.type = "object"
      /\ Has(fn.descriptor, "properties")
      /\ fn.value = JsObject(<<>>) =>
        fn.accepted

\* the rule of the dispatch order that a descriptor matches first
FirstRule(d) ==
    LET listed(f) == f \in DOMAIN d /\ d[f] # <<>>
        kind == IF "type" \in DOMAIN d THEN d.type ELSE ""
    IN IF "const" \in DOMAIN d THEN "const"
       ELSE IF listed("anyOf") THEN "anyOf"
       ELSE IF listed("oneOf") THEN "oneOf"
       ELSE IF listed("allOf") THEN "allOf"
       ELSE IF kind \in {"null", "object", "array", "string", "boolean"} THEN kind
       ELSE IF kind \in {"number", "integer"} THEN "number"
       ELSE "fallback"

\* a validator without its description and nullable wrappers
RECURSIVE Core(_)
Core(v) == IF v.k \in {"described", "nullable"} THEN Core(v.inner) ELSE v

\* the validator kinds each rule may give
KindsOf(rule) ==
    CASE rule = "const" -> {"literal"}
      [] rule \in {"anyOf", "oneOf"} -> {"union"}
      [] rule = "allOf" -> {"intersection"}
      [] rule = "null" -> {"null"}
      [] rule = "object" -> {"object", "record"}
      [] rule = "array" -> {"array", "tuple"}
      [] rule = "string" -> {"string", "enum"}
      [] rule = "number" -> {"number"}
      [] rule = "boolean" -> {"boolean"}
      [] rule = "fallback" -> {"unknown"}

\* C22: scanObject compiles a descriptor by the first matching rule of const,
\* non-empty anyOf, non-empty oneOf, non-empty allOf, null, object, array,
\* string, number/integer, boolean, fallback; a single-branch anyOf or oneOf
\* gives the branch's validator itself, const with a kind gives the literal,
\* and a descriptor matching no rule accepts every value
C22_FirstMatchingRuleCompiles ==
    fn.op \in {"scan", "check"} /\ ~Threw(fn.validator) =>
        LET d == fn.descriptor
            rule == FirstRule(d)
        IN /\ IF rule \in {"anyOf", "oneOf"} /\ Len(d[rule]) = 1
              THEN fn.validator = scanObject(d[rule][1])
              ELSE IF rule = "allOf" /\ Len(d[rule]) = 1
              THEN Core(fn.validator) = Core(scanObject(d[rule][1]))
              ELSE Core(fn.validator).k \in KindsOf(rule)
           /\ rule = "const" => Core(fn.validator).value = d.const
           /\ fn.op = "check" /\ rule = "const" =>
                 (fn.accepted <=> fn.value = d.const)
           /\ fn.op = "check" /\ rule = "fallback" => fn.accepted

\* a descriptor with a single-branch anyOf of a number next to kind string was
\* compiled and its validator took a number and refused a string
C22_Witness ==
    /\ fn.op = "check"
    /\ FirstRule(fn.descriptor) = "anyOf"
    /\ Len(fn.descriptor.anyOf) = 1
    /\ "type" \in DOMAIN fn.descriptor /\ fn.descriptor.type = "string"
    /\ fn.value = JsNumber(1)
    /\ fn.accepted

\* C23: for an entry tagged resource, convertToSDKContent returns the blob
\* sub-variant (uri, blob, mimeType) whenever the inner resource has a blob
\* payload, an empty one included, and the text sub-variant (uri, text,
\* mimeType) otherwise; without an inner resource the text sub-variant has an
\* empty uri and an empty text
C23_BlobSubVariantWheneverBlobCarried ==
    fn.op = "convert" /\ fn.entry.type = "resource" =>
        LET inner == IF Has(fn.entry, "resource") THEN fn.entry.resource ELSE <<>>
            res == fn.out.resource
        IN /\ fn.out.type = "resource"
           /\ IF Has(inner, "blob")
              THEN /\ Has(res, "blob") /\ ~Has(res, "text")
                   /\ res.blob = inner.blob
                   /\ res.uri = inner.uri
              ELSE /\ Has(res, "text") /\ ~Has(res, "blob")
                   /\ res.uri = (IF Has(inner, "uri") THEN inner.uri ELSE "")
                   /\ res.text = (IF Has(inner, "text") THEN inner.text ELSE "")
           /\ Has(res, "mimeType") <=> Has(inner, "mimeType")
           /\ Has(inner, "mimeType") => res.mimeType = inner.mimeType

\* the index keys of a JavaScript array of n elements: "0" .. "n-1"
IndexKeys(arr) == {ToString(i) : i \in 0..(Len(arr) - 1)}

\* C24 (as stated): requiredness is tested against the index keys of
\* required_inputs, not its values: an input is accepted exactly when every
\* given property is a string and every omitted one is no index key of
\* required_inputs, whether or not its name is listed there
C24_RequiredIffIndexKey ==
    fn.op = "validate" =>
        (fn.accepted <=>
            \A p \in DOMAIN fn.spec :
                IF p \in DOMAIN fn.input.fields
                THEN fn.input.fields[p].t = "string"
                ELSE p \notin IndexKeys(fn.required_inputs))

\* C24 (amended): requiredness is tested against the property keys of the
\* required_inputs array, which are its index keys and the names every array
\* has, such as length, and not against its values: an omitted property is
\* refused exactly when its name is such a key, so a name that is only listed
\* as a value is optional
C24_RequiredIffArrayKey ==
    fn.op = "validate" =>
        /\ fn.accepted <=>
              \A p \in DOMAIN fn.spec :
                  IF p \in DOMAIN fn.input.fields
                  THEN fn.input.fields[p].t = "string"
                  ELSE p \notin IndexKeys(fn.required_inputs) \cup ArrayPropertyKeys
        /\ \A p \in DOMAIN fn.spec :
              p \in Range(fn.required_inputs)
                /\ p \notin IndexKeys(fn.required_inputs) \cup ArrayPropertyKeys =>
                  fn.rawShape.shape[p].k = "optional"

\* a tool with property a and required_inputs = ["a"] took an input without a
C24_Witness ==
    /\ fn.op = "validate"
    /\ fn.required_inputs = <<"a">>
    /\ "a" \in DOMAIN fn.spec
    /\ "a" \notin DOMAIN fn.input.fields
    /\ fn.accepted

\* neither part of the pair contains the separator
SeparatorFreePair(p, n) ==
    ~Contains(p, NAMESPACE_SEPARATOR) /\ ~Contains(n, NAMESPACE_SEPARATOR)

\* C25 (as stated): makeNamespacedName is injective on separator-free pairs:
\* no other separator-free pair of server name and item name gives the name
\* just made
C25_InjectiveOnSeparatorFree ==
    fn.op = "make" /\ SeparatorFreePair(fn.serverName, fn.itemName) =>
        \A p2 \in Names, n2 \in Names :
            SeparatorFreePair(p2, n2) /\ <<p2, n2>> # <<fn.serverName, fn.itemName>> =>
                makeNamespacedName(p2, n2) # fn.name

\* C25 (amended): makeNamespacedName is injective on the separator-free pairs
\* whose server name does not end in "_": no other such pair gives the name
\* just made
C25_InjectiveNoTrailingUnderscore ==
    fn.op = "make"
      /\ SeparatorFreePair(fn.serverName, fn.itemName)
      /\ ~EndsWith(fn.serverName, "_") =>
        \A p2 \in Names, n2 \in Names :
            (/\ SeparatorFreePair(p2, n2)
             /\ ~EndsWith(p2, "_")
             /\ <<p2, n2>> # <<fn.serverName, fn.itemName>>) =>
                makeNamespacedName(p2, n2) # fn.name

\* a name was made whose item name begins with "_", so that the separator
\* occurs at two places of it
C25_Witness ==
    /\ fn.op = "make"
    /\ fn.serverName = <<"a">>
    /\ fn.itemName = <<"_", "a">>
    /\ fn.name = <<"a", "_", "_", "_", "_", "a">>

\* C26: gateway mode registers a server's tools all or none: after
\* initialization every enumerated server has every tool of its fetched
\* listing in the table, or none of them
C26_ToolsAllOrNothing ==
    Finished /\ args.gateway =>
        \A i \in 1..Len(servers) :
            ToolsPresent(servers[i].name) \/ ToolsOf(servers[i].name) = {}

\* C27: in gateway mode the meta tools are registered before the discovery
\* call is made, and when listing the meta tools fails initialize fails: the
\* discovery call is never made, no server is registered and the tables stay
\* empty
C27_MetaToolsBeforeDiscovery ==
    /\ discovery # "none" =>
          /\ metaFetch = "ok"
          /\ \A i \in DOMAIN MetaToolNames :
                \E e \in tools :
                    e.name = MetaToolNames[i] /\ e.server = MCPHIVE_SERVER
    /\ metaFetch = "fail" =>
          /\ pc = "exited"
          /\ discovery = "none"
          /\ servers = <<>>
          /\ \A s \in ServerNames : toolFetch[s].st = "none"
          /\ tools = {} /\ resources = {} /\ prompts = {}

\* gateway mode ended on the failed listing of the meta tools
C27_Witness ==
    /\ args.gateway
    /\ metaFetch = "fail"
    /\ pc = "exited"
    /\ tools = {}

\* the states of gateway mode and of single-server mode before serving
GatewaySteps == {"gw_meta", "gw_discover", "gw_tools", "gw_resources", "gw_prompts"}
ProxySteps == {"px_tools", "px_resources", "px_prompts"}
\* the entries of the three tables, and those exposed under their local name
\* or uri
AllEntries == tools \cup resources \cup prompts
Unnamespaced ==
    {e \in tools : e.name = e.toolName}
      \cup {e \in resources : e.uri = e.resourceUri}
      \cup {e \in prompts : e.name = e.promptName}

\* C28: once called, initialize runs exactly one mode: gateway mode whenever
\* the gateway flag is set, a given server name then being unused and nothing
\* registered unnamespaced for it; single-server mode when the flag is clear
\* and a name is given; an error with nothing registered when the flag is
\* clear and no name given.  proxyArgs sets the flag whenever no server name
\* is supplied
C28_ExactlyOneMode ==
    /\ guard /\ args.gateway =>
          /\ pc \notin ProxySteps
          /\ \A e \in Unnamespaced : e.server = MCPHIVE_SERVER
          /\ \A e \in AllEntries : e.server # MCPHIVE_SERVER =>
                \E i \in 1..Len(servers) : servers[i].name = e.server
    /\ guard /\ ~args.gateway /\ args.server # <<>> =>
          /\ pc \notin GatewaySteps
          /\ metaFetch = "none" /\ discovery = "none"
          /\ AllEntries = Unnamespaced
          /\ \A e \in AllEntries : e.server = args.server
    /\ guard /\ args.server = <<>> => args.gateway
    /\ \A values \in CommandLines :
          values.server = <<>> => proxyArgs(values).gateway
    /\ InitializeBranch(<<>>, FALSE) = "exited"
    /\ guard /\ ~args.gateway /\ args.server = <<>> =>
          pc = "exited" /\ AllEntries = {}

\* gateway mode was run with a server name also given: that server's tool is
\* in the table under its namespaced name only, next to the meta tools
C28_Witness ==
    /\ guard /\ args.gateway /\ args.server = <<"a">>
    /\ pc = "serving"
    /\ \E e \in tools : e.server = <<"a">> /\ e.name # e.toolName
    /\ \E e \in tools : e.server = MCPHIVE_SERVER

\* C29: a resource read forwards the server's local uri to the registering
\* server, and every entry of the returned contents has the uri the resource
\* is exposed under (server___uri in gateway mode, the local uri in
\* single-server mode) and the mimeType of the listed descriptor, whatever
\* uri and mimeType the response entry has
C29_ReadCarriesRegisteredUri ==
    lastCall.kind = "resource" =>
        LET f == lastCall.forwards[1]
            listing == resFetch[f.mcpServer].listing
            exposed == IF args.gateway
                       THEN f.mcpServer \o NAMESPACE_SEPARATOR \o f.name
                       ELSE f.name
        IN /\ Len(lastCall.forwards) = 1
           /\ f.method = METHOD_RESOURCES_READ
           /\ ~args.gateway => f.mcpServer = args.server
           /\ lastCall.name = exposed
           /\ \E j \in DOMAIN listing :
                 /\ listing[j].uri = f.name
                 /\ \A i \in DOMAIN lastCall.result.contents :
                       /\ lastCall.result.contents[i].uri = exposed
                       /\ lastCall.result.contents[i].mimeType = listing[j].mimeType

\* gateway mode: the response entry had a uri and a mimeType of its own and
\* the result has the namespaced uri of server c_
C29_Witness ==
    /\ args.gateway
    /\ lastCall.kind = "resource"
    /\ lastCall.forwards[1].mcpServer = <<"c", "_">>
    /\ lastCall.answer # Null
    /\ Has(lastCall.answer.content[1], "uri")
    /\ Has(lastCall.answer.content[1], "mimeType")
    /\ lastCall.result.contents[1].uri = <<"c", "_", "_", "_", "_", "u">>
    /\ lastCall.result.contents[1].mimeType # lastCall.answer.content[1].mimeType

\* C30: when the forwarding call returns null, a resource read returns an
\* empty contents list and a prompt get returns an empty messages list and no
\* description, neither raising; a prompt get also returns empty messages
\* when the response has no structured content or no messages in it
C30_NullAnswerGivesEmptyResult ==
    /\ lastCall.kind = "resource" /\ lastCall.answer = Null =>
          lastCall.result = [contents |-> <<>>]
    /\ lastCall.kind = "prompt" /\ lastCall.answer = Null =>
          lastCall.result = [messages |-> <<>>]
    /\ lastCall.kind = "prompt" /\ lastCall.answer # Null
         /\ (\/ ~Has(lastCall.answer, "structuredContent")
             \/ ~Has(lastCall.answer.structuredContent, "messages")) =>
          /\ Has(lastCall.result, "messages")
          /\ lastCall.result.messages = <<>>

\* a prompt get whose forwarding call returned null gave empty messages
C30_Witness ==
    /\ lastCall.kind = "prompt"
    /\ lastCall.answer = Null
    /\ lastCall.result = [messages |-> <<>>]

====
